---- MODULE Spec2Model ----
(***************************************************************************)
(* Model of src/src/main.py: the `process` subcommand.                     *)
(*                                                                         *)
(*   validate_item  - schema check of one decoded JSON value               *)
(*   process_file   - open, json.load, shape check, validate/accumulate    *)
(*                    loop, summary                                        *)
(*   main           - argument parsing, printing, exit code                *)
(*                                                                         *)
(* Decoded JSON values are tagged by the Python type json.load gives them: *)
(* dict "object", list "list", str "string", int "int", float "float",     *)
(* bool "bool", None "null".  A Python float is modelled by the exact      *)
(* rational <<n, d>> (lowest terms, d > 0) it holds; within the bounds of  *)
(* the model (small dyadic values) float addition is exact and float       *)
(* division is the correctly rounded value of the exact quotient, so the   *)
(* rational identifies the float.  An int too large for a double is        *)
(* carried by the flag `huge` (float() raises OverflowError on it).        *)
(* Text is a sequence of one-character strings.                            *)
(***************************************************************************)
EXTENDS Integers, Sequences, FiniteSets, TLC

\* Longest input list explored.
MaxLen == 2

Keys == {"id", "name", "value"}

Whitespace == {" ", "\t", "\n"}

(***************************************************************************)
(* Decoded values                                                          *)
(***************************************************************************)

\* Stands for a key that is left out of the dict.
Absent == [kind |-> "absent", n |-> 0, d |-> 1, s |-> <<>>, huge |-> FALSE]

IntV(k) == [kind |-> "int", n |-> k, d |-> 1, s |-> <<>>, huge |-> FALSE]

\* An int beyond the range of a double (such as 10**400).
HugeInt == [kind |-> "int", n |-> 0, d |-> 1, s |-> <<>>, huge |-> TRUE]

FloatV(num, den) == [kind |-> "float", n |-> num, d |-> den, s |-> <<>>, huge |-> FALSE]

\* bool is a subclass of int: True is 1, False is 0.
BoolV(b) == [kind |-> "bool", n |-> IF b THEN 1 ELSE 0, d |-> 1, s |-> <<>>, huge |-> FALSE]

StrV(text) == [kind |-> "string", n |-> 0, d |-> 1, s |-> text, huge |-> FALSE]

Opaque(k) == [kind |-> k, n |-> 0, d |-> 1, s |-> <<>>, huge |-> FALSE]

\* A value that is not a dict has no keys.
NoFields == [k \in {} |-> Absent]

\* The dict with the given values under "id", "name", "value"; a key whose
\* value is Absent is not in the dict.
Obj(id, name, value) ==
  LET all == [k \in Keys |-> CASE k = "id" -> id
                               [] k = "name" -> name
                               [] OTHER -> value]
  IN  [kind |-> "object",
       fields |-> [k \in {x \in Keys : all[x] # Absent} |-> all[k]]]

NonObj(k) == [kind |-> k, fields |-> NoFields]

\* The values a field is drawn from: every decoded kind, and the key missing.
FieldValues ==
  { Absent, IntV(1), IntV(2), IntV(-2), HugeInt, FloatV(3, 2),
    BoolV(TRUE), BoolV(FALSE),
    StrV(<<"a">>), StrV(<<" ", "a", " ">>), StrV(<<>>), StrV(<<" ", "\t">>),
    Opaque("null"), Opaque("list"), Opaque("object") }

NonObjectKinds == {"list", "string", "int", "float", "bool", "null"}

\* Every candidate validate_item is tried on.
Candidates ==
  { NonObj(k) : k \in NonObjectKinds }
    \cup { Obj(a, b, c) : a \in FieldValues, b \in FieldValues, c \in FieldValues }

ValidBase == Obj(IntV(1), StrV(<<"a">>), IntV(2))

\* The list elements of the pipeline runs: the valid record with one field
\* varied over every field value, and the candidates that are not objects.
Elements ==
  { NonObj("string"), NonObj("null") }
    \cup { Obj(a, StrV(<<"a">>), IntV(2)) : a \in FieldValues }
    \cup { Obj(IntV(1), b, IntV(2)) : b \in FieldValues }
    \cup { Obj(IntV(1), StrV(<<"a">>), c) : c \in FieldValues }

(***************************************************************************)
(* Host-type predicates and conversions                                    *)
(***************************************************************************)

\* isinstance(v, int): bool is a subclass of int.
IsInstanceInt(v) == v.kind \in {"int", "bool"}

\* isinstance(v, str)
IsInstanceStr(v) == v.kind = "string"

\* isinstance(v, (int, float))
IsInstanceNumber(v) == v.kind \in {"int", "bool", "float"}

RECURSIVE LStrip(_)
LStrip(text) ==
  IF text # <<>> /\ Head(text) \in Whitespace THEN LStrip(Tail(text)) ELSE text

RECURSIVE RStrip(_)
RStrip(text) ==
  IF text # <<>> /\ text[Len(text)] \in Whitespace
  THEN RStrip(SubSeq(text, 1, Len(text) - 1))
  ELSE text

\* str.strip(): leading and trailing whitespace removed.
Strip(text) == RStrip(LStrip(text))

Abs(x) == IF x < 0 THEN -x ELSE x

RECURSIVE GCD(_, _)
GCD(a, b) == IF b = 0 THEN a ELSE GCD(b, a % b)

\* The float holding num/den.
Rat(num, den) ==
  LET g == GCD(Abs(num), Abs(den))
      sgn == IF den < 0 THEN -1 ELSE 1
  IN  <<sgn * (num \div g), sgn * (den \div g)>>

Zero == <<0, 1>>

\* float + float
FAdd(x, y) == Rat(x[1] * y[2] + y[1] * x[2], x[2] * y[2])

\* float / int
FDiv(x, k) == Rat(x[1], x[2] * k)

\* float(v) raises OverflowError: an int too large for a double.
FloatRaises(v) == v.kind = "int" /\ v.huge

\* float(v) for an int, a bool or a float.
Float(v) == IF v.kind = "float" THEN Rat(v.n, v.d) ELSE Rat(v.n, 1)

(***************************************************************************)
(* validate_item                                                           *)
(***************************************************************************)

OK == "ok"
NotAnObject == "item must be an object"
MissingId == "missing field 'id'"
IdNotInt == "field 'id' must be int"
MissingName == "missing field 'name'"
NameNotString == "field 'name' must be a non-empty string"
MissingValue == "missing field 'value'"
ValueNotNumber == "field 'value' must be a number"
NotAList == "input JSON must be a list"
NoSuchFile == "[Errno 2] No such file or directory"
DecodeFailure == "Expecting value"
IntTooLarge == "int too large to convert to float"

\* validate_item with the 'name' checks placed before the 'id' checks.
validate_item_name_first(item) ==
  IF item.kind # "object" THEN NotAnObject
  ELSE IF "name" \notin DOMAIN item.fields THEN MissingName
  ELSE IF ~IsInstanceStr(item.fields["name"]) \/ Strip(item.fields["name"].s) = <<>>
       THEN NameNotString
  ELSE IF "id" \notin DOMAIN item.fields THEN MissingId
  ELSE IF ~IsInstanceInt(item.fields["id"]) THEN IdNotInt
  ELSE IF "value" \notin DOMAIN item.fields THEN MissingValue
  ELSE IF ~IsInstanceNumber(item.fields["value"]) THEN ValueNotNumber
  ELSE OK

\* The message of the ValueError validate_item raises on `item`, OK when it
\* returns.
validate_item(item) ==
  IF item.kind # "object" THEN NotAnObject
  ELSE IF "id" \notin DOMAIN item.fields THEN MissingId
  ELSE IF ~IsInstanceInt(item.fields["id"]) THEN IdNotInt
  ELSE IF "name" \notin DOMAIN item.fields THEN MissingName
  ELSE IF ~IsInstanceStr(item.fields["name"]) \/ Strip(item.fields["name"].s) = <<>>
       THEN NameNotString
  ELSE IF "value" \notin DOMAIN item.fields THEN MissingValue
  ELSE IF ~IsInstanceNumber(item.fields["value"]) THEN ValueNotNumber
  ELSE OK

(***************************************************************************)
(* State                                                                   *)
(***************************************************************************)

VARIABLES
  argv,       \* the command line main is given
  file,       \* the input resource: missing, undecodable, or its decoded value
  pc,         \* position of the run
  handle,     \* fh: "none", "open" or "closed"
  data,       \* process_file's `data`, <<>> before json.load returns
  idx,        \* 1-based position of `item` in data
  total,      \* process_file's `total`
  count,      \* process_file's `count`
  exc,        \* the exception propagating, NoExc when none
  returned,   \* <<summary>> once process_file has returned, else <<>>
  stdout,     \* lines written to standard output
  stderr,     \* lines written to standard error
  exit_code,  \* main's return value (or SystemExit code), -1 while running
  calls,      \* history: every validate_item call, [idx, err]
  added,      \* history: positions whose value was added to total
  cand,       \* validate_item alone: the candidate
  verdict     \* validate_item alone: its outcome, "pending" before the call

vars == <<argv, file, pc, handle, data, idx, total, count, exc, returned,
          stdout, stderr, exit_code, calls, added, cand, verdict>>

NoExc == [type |-> "", msg |-> ""]

Raise(type, msg) == [type |-> type, msg |-> msg]

Doc(kind, fields, items) == [kind |-> kind, fields |-> fields, items |-> items]

ListDoc(items) == Doc("list", NoFields, items)

Lists == UNION { [1..n -> Elements] : n \in 0..MaxLen }

\* Decoded values that are not lists; an object may itself be a valid record.
NonListDocs ==
  { Doc(k, NoFields, <<>>) : k \in {"string", "int", "float", "bool", "null"} }
    \cup { Doc("object", ValidBase.fields, <<>>), Doc("object", NoFields, <<>>) }

\* A file holding one valid record (as in test_main_short_option).
ShellFile == [status |-> "ok", doc |-> ListDoc(<<ValidBase>>)]

\* The file of test_valid_multiple_items: values 10.0, 20.0, 30.0.
TestMultipleFile ==
  [status |-> "ok",
   doc |-> ListDoc(<<Obj(IntV(1), StrV(<<"a">>), FloatV(10, 1)),
                     Obj(IntV(2), StrV(<<"b">>), FloatV(20, 1)),
                     Obj(IntV(3), StrV(<<"c">>), FloatV(30, 1))>>)]

Files ==
  { [status |-> "missing", doc |-> Doc("null", NoFields, <<>>)],
    [status |-> "malformed", doc |-> Doc("null", NoFields, <<>>)] }
    \cup { [status |-> "ok", doc |-> x] : x \in NonListDocs }
    \cup { [status |-> "ok", doc |-> ListDoc(items)] : items \in Lists }
    \cup { TestMultipleFile }

LongForm == <<"process", "--input", "PATH">>
ShortForm == <<"process", "-i", "PATH">>

Invocations == { LongForm, ShortForm, <<"process">>, <<>> }

\* parse_args accepts the command line (otherwise argparse exits with code 2).
ParseAccepts(a) ==
  Len(a) = 3 /\ a[1] = "process" /\ a[2] \in {"--input", "-i"}

Idle ==
  /\ handle = "none"
  /\ data = <<>>
  /\ idx = 0
  /\ total = Zero
  /\ count = 0
  /\ exc = NoExc
  /\ returned = <<>>
  /\ stdout = <<>>
  /\ stderr = <<>>
  /\ exit_code = -1
  /\ calls = <<>>
  /\ added = <<>>

\* A run of main: every file under the long form, the other command lines on
\* one file (parse_args does not read the file).
Init ==
  /\ argv \in Invocations
  /\ file \in Files
  /\ argv # LongForm => file = ShellFile
  /\ pc = "parse_args"
  /\ Idle
  /\ cand = NonObj("null")
  /\ verdict = "pending"

(***************************************************************************)
(* main and process_file                                                   *)
(***************************************************************************)

UsageLine == [prefix |-> "usage: ", message |-> "main [-h] {process} ..."]
UsageError == [prefix |-> "main: error: ", message |-> "the following arguments are required"]

ErrorLine(msg) == [prefix |-> "Error: ", message |-> msg]

\* json.dumps(summary): one line holding the three keys.
JsonDumps(summary) == [prefix |-> "", message |-> summary]

\* parser.parse_args(argv) returns.
ParseArgs ==
  /\ pc = "parse_args"
  /\ ParseAccepts(argv)
  /\ pc' = "open"
  /\ UNCHANGED <<argv, file, handle, data, idx, total, count, exc, returned,
                 stdout, stderr, exit_code, calls, added, cand, verdict>>

\* parser.parse_args(argv) raises SystemExit(2), outside the try block.
ParseArgsExit ==
  /\ pc = "parse_args"
  /\ ~ParseAccepts(argv)
  /\ stderr' = stderr \o <<UsageLine, UsageError>>
  /\ exit_code' = 2
  /\ pc' = "exit"
  /\ UNCHANGED <<argv, file, handle, data, idx, total, count, exc, returned,
                 stdout, calls, added, cand, verdict>>

\* open(path, "r", encoding="utf-8")
OpenFile ==
  /\ pc = "open"
  /\ IF file.status = "missing"
     THEN /\ exc' = Raise("FileNotFoundError", NoSuchFile)
          /\ pc' = "except"
          /\ UNCHANGED handle
     ELSE /\ handle' = "open"
          /\ pc' = "load"
          /\ UNCHANGED exc
  /\ UNCHANGED <<argv, file, data, idx, total, count, returned, stdout, stderr,
                 exit_code, calls, added, cand, verdict>>

\* data = json.load(fh), inside the with block
JsonLoad ==
  /\ pc = "load"
  /\ IF file.status = "malformed"
     THEN /\ exc' = Raise("JSONDecodeError", DecodeFailure)
          /\ UNCHANGED data
     ELSE /\ data' = <<file.doc>>
          /\ UNCHANGED exc
  /\ pc' = "with_exit"
  /\ UNCHANGED <<argv, file, handle, idx, total, count, returned, stdout, stderr,
                 exit_code, calls, added, cand, verdict>>

\* fh closed by a plain fh.close() after json.load: skipped when it raises.
WithExitLeak ==
  /\ pc = "with_exit"
  /\ handle' = IF exc # NoExc THEN handle ELSE "closed"
  /\ pc' = IF exc # NoExc THEN "except" ELSE "shape"
  /\ UNCHANGED <<argv, file, data, idx, total, count, exc, returned, stdout,
                 stderr, exit_code, calls, added, cand, verdict>>

\* Leaving the with block closes fh, whether json.load returned or raised.
WithExit ==
  /\ pc = "with_exit"
  /\ handle' = "closed"
  /\ pc' = IF exc # NoExc THEN "except" ELSE "shape"
  /\ UNCHANGED <<argv, file, data, idx, total, count, exc, returned, stdout,
                 stderr, exit_code, calls, added, cand, verdict>>

\* isinstance(data, (list, dict))
IsListOrDict(x) == x.kind \in {"list", "object"}

\* isinstance(data, list)
IsList(x) == x.kind = "list"

\* The shape check, then total = 0.0 and count = 0.
ShapeCheck ==
  /\ pc = "shape"
  /\ IF ~IsList(data[1])
     THEN /\ exc' = Raise("ValueError", NotAList)
          /\ pc' = "except"
          /\ UNCHANGED <<idx, total, count>>
     ELSE /\ total' = Zero
          /\ count' = 0
          /\ idx' = 1
          /\ pc' = "loop"
          /\ UNCHANGED exc
  /\ UNCHANGED <<argv, file, handle, data, returned, stdout, stderr, exit_code,
                 calls, added, cand, verdict>>

\* The loop with the failure of an element recorded and the scan continued.
ValidateStepContinue ==
  /\ pc = "loop"
  /\ idx <= Len(data[1].items)
  /\ LET err == validate_item(data[1].items[idx])
     IN  /\ calls' = Append(calls, [idx |-> idx, err |-> err])
         /\ IF err # OK
            THEN /\ exc' = Raise("ValueError", err)
                 /\ idx' = idx + 1
                 /\ pc' = "loop"
            ELSE /\ pc' = "accumulate"
                 /\ UNCHANGED <<exc, idx>>
  /\ UNCHANGED <<argv, file, handle, data, total, count, returned, stdout,
                 stderr, exit_code, added, cand, verdict>>

\* for item in data: validate_item(item)
ValidateStep ==
  /\ pc = "loop"
  /\ idx <= Len(data[1].items)
  /\ LET err == validate_item(data[1].items[idx])
     IN  /\ calls' = Append(calls, [idx |-> idx, err |-> err])
         /\ IF err # OK
            THEN /\ exc' = Raise("ValueError", err)
                 /\ pc' = "except"
            ELSE /\ pc' = "accumulate"
                 /\ UNCHANGED exc
  /\ UNCHANGED <<argv, file, handle, data, idx, total, count, returned, stdout,
                 stderr, exit_code, added, cand, verdict>>

\* total = float(item["value"]) in place of total += float(item["value"]).
AccumulateAssign ==
  /\ pc = "accumulate"
  /\ LET v == data[1].items[idx].fields["value"]
     IN  IF FloatRaises(v)
         THEN /\ exc' = Raise("OverflowError", IntTooLarge)
              /\ pc' = "except"
              /\ UNCHANGED <<idx, total, count, added>>
         ELSE /\ total' = Float(v)
              /\ count' = count + 1
              /\ added' = Append(added, idx)
              /\ idx' = idx + 1
              /\ pc' = "loop"
              /\ UNCHANGED exc
  /\ UNCHANGED <<argv, file, handle, data, returned, stdout, stderr, exit_code,
                 calls, cand, verdict>>

\* total += float(item["value"]); count += 1
Accumulate ==
  /\ pc = "accumulate"
  /\ LET v == data[1].items[idx].fields["value"]
     IN  IF FloatRaises(v)
         THEN /\ exc' = Raise("OverflowError", IntTooLarge)
              /\ pc' = "except"
              /\ UNCHANGED <<idx, total, count, added>>
         ELSE /\ total' = FAdd(total, Float(v))
              /\ count' = count + 1
              /\ added' = Append(added, idx)
              /\ idx' = idx + 1
              /\ pc' = "loop"
              /\ UNCHANGED exc
  /\ UNCHANGED <<argv, file, handle, data, returned, stdout, stderr, exit_code,
                 calls, cand, verdict>>

\* avg = (total / count) if count else 0.0
Average(t, c) == IF c # 0 THEN FDiv(t, c) ELSE Zero

\* The loop is exhausted: process_file returns the summary.
Finalize ==
  /\ pc = "loop"
  /\ idx > Len(data[1].items)
  /\ returned' = <<[count |-> count, total_value |-> total,
                    avg_value |-> Average(total, count)]>>
  /\ pc' = "print"
  /\ UNCHANGED <<argv, file, handle, data, idx, total, count, exc, stdout,
                 stderr, exit_code, calls, added, cand, verdict>>

\* print(json.dumps(summary)); return 0
PrintSummary ==
  /\ pc = "print"
  /\ stdout' = Append(stdout, JsonDumps(returned[1]))
  /\ exit_code' = 0
  /\ pc' = "exit"
  /\ UNCHANGED <<argv, file, handle, data, idx, total, count, exc, returned,
                 stderr, calls, added, cand, verdict>>

\* The handler printing the diagnostic without file=sys.stderr.
HandleExceptionStdout ==
  /\ pc = "except"
  /\ stdout' = Append(stdout, ErrorLine(exc.msg))
  /\ exit_code' = 1
  /\ pc' = "exit"
  /\ UNCHANGED <<argv, file, handle, data, idx, total, count, exc, returned,
                 stderr, calls, added, cand, verdict>>

\* except Exception as exc: print(f"Error: {exc}", file=sys.stderr); return 1
HandleException ==
  /\ pc = "except"
  /\ stderr' = Append(stderr, ErrorLine(exc.msg))
  /\ exit_code' = 1
  /\ pc' = "exit"
  /\ UNCHANGED <<argv, file, handle, data, idx, total, count, exc, returned,
                 stdout, calls, added, cand, verdict>>

Next ==
  \/ ParseArgs
  \/ ParseArgsExit
  \/ OpenFile
  \/ JsonLoad
  \/ WithExit
  \/ ShapeCheck
  \/ ValidateStep
  \/ Accumulate
  \/ Finalize
  \/ PrintSummary
  \/ HandleException

Spec == Init /\ [][Next]_vars

(***************************************************************************)
(* validate_item alone, on every candidate                                 *)
(***************************************************************************)

InitValidate ==
  /\ argv = <<>>
  /\ file = ShellFile
  /\ pc = "unit"
  /\ Idle
  /\ cand \in Candidates
  /\ verdict = "pending"

CallValidate ==
  /\ pc = "unit"
  /\ verdict = "pending"
  /\ verdict' = validate_item(cand)
  /\ UNCHANGED <<argv, file, pc, handle, data, idx, total, count, exc, returned,
                 stdout, stderr, exit_code, calls, added, cand>>

NextValidate == CallValidate

SpecValidate == InitValidate /\ [][NextValidate]_vars

(***************************************************************************)
(* Properties                                                              *)
(***************************************************************************)

\* The run is one of main with the process subcommand and an input path.
ProcessRun == ParseAccepts(argv)

Done == pc = "exit"

\* The input decodes to a list.
InputIsList == file.status = "ok" /\ file.doc.kind = "list"

Input == file.doc.items

Valid(k) == validate_item(Input[k]) = OK

AllValid == \A k \in 1..Len(Input) : Valid(k)

SomeInvalid == \E k \in 1..Len(Input) : ~Valid(k)

FirstInvalid == CHOOSE k \in 1..Len(Input) : ~Valid(k) /\ \A j \in 1..(k - 1) : Valid(j)

\* The sum, in list order, of the 'value' fields of the first k elements.
RECURSIVE SumOf(_, _)
SumOf(items, k) ==
  IF k = 0 THEN Zero ELSE FAdd(SumOf(items, k - 1), Float(items[k].fields["value"]))

OkCalls == { k \in 1..Len(calls) : calls[k].err = OK }

\* C1: for every input list whose elements all pass validate_item,
\* process_file returns a summary with count = number of elements and
\* avg_value = total_value / count (0.0 for count 0).
C1_ValidListGivesSummary ==
  (Done /\ ProcessRun /\ InputIsList /\ AllValid) =>
    /\ returned # <<>>
    /\ returned[1].count = Len(Input)
    /\ returned[1].avg_value =
         IF returned[1].count > 0
         THEN FDiv(returned[1].total_value, returned[1].count)
         ELSE Zero

\* Whenever process_file does return a summary, its count is the number of
\* list elements and its average is total / count, 0.0 for the empty list.
SummaryShape ==
  returned # <<>> =>
    /\ InputIsList /\ AllValid
    /\ returned[1].count = Len(Input)
    /\ returned[1].avg_value =
         IF returned[1].count > 0
         THEN FDiv(returned[1].total_value, returned[1].count)
         ELSE Zero

\* C2: for every input list with at least one invalid element the run fails,
\* no summary is returned or printed, and the failure reported is the one
\* validate_item raises for the invalid element of lowest index.
C2_FirstInvalidReported ==
  (Done /\ ProcessRun /\ InputIsList /\ SomeInvalid) =>
    /\ exit_code = 1
    /\ returned = <<>>
    /\ stdout = <<>>
    /\ stderr = <<ErrorLine(validate_item(Input[FirstInvalid]))>>

\* C3: every run of the process subcommand ends, and ends either with exit
\* code 0, exactly one summary line on standard output and nothing on
\* standard error, or with exit code 1, exactly one "Error: <message>" line
\* on standard error and nothing on standard output; never both, never
\* neither; and nothing is written before the run ends.
C3_BinaryOutcome ==
  ProcessRun =>
    /\ Done \/ ENABLED Next
    /\ ~(stdout # <<>> /\ stderr # <<>>)
    /\ ~Done => (stdout = <<>> /\ stderr = <<>> /\ exit_code = -1)
    /\ Done =>
         \/ /\ exit_code = 0
            /\ returned # <<>>
            /\ stdout = <<JsonDumps(returned[1])>>
            /\ stderr = <<>>
            /\ exc = NoExc
         \/ /\ exit_code = 1
            /\ exc # NoExc
            /\ returned = <<>>
            /\ stdout = <<>>
            /\ stderr = <<ErrorLine(exc.msg)>>

C3_Witness ==
  /\ Done /\ ProcessRun
  /\ exit_code = 1
  /\ stderr = <<ErrorLine(NoSuchFile)>>
  /\ stdout = <<>>

\* The checks of validate_item, each stated on its own, in the fixed order.
Violates(c, check) ==
  CASE check = 1 -> c.kind # "object"
    [] check = 2 -> "id" \notin DOMAIN c.fields
    [] check = 3 -> "id" \in DOMAIN c.fields /\ ~IsInstanceInt(c.fields["id"])
    [] check = 4 -> "name" \notin DOMAIN c.fields
    [] check = 5 -> /\ "name" \in DOMAIN c.fields
                    /\ \/ ~IsInstanceStr(c.fields["name"])
                       \/ \A p \in 1..Len(c.fields["name"].s) :
                            c.fields["name"].s[p] \in Whitespace
    [] check = 6 -> "value" \notin DOMAIN c.fields
    [] OTHER     -> "value" \in DOMAIN c.fields /\ ~IsInstanceNumber(c.fields["value"])

CheckMessage ==
  <<NotAnObject, MissingId, IdNotInt, MissingName, NameNotString, MissingValue,
    ValueNotNumber>>

Violated(c) == { check \in 1..Len(CheckMessage) : Violates(c, check) }

Earliest(S) == CHOOSE m \in S : \A x \in S : m <= x

\* C4: validate_item reports the earliest violated check of the fixed order
\* (not an object, missing id, id type, missing name, name not a non-empty
\* string, missing value, value type), also when several are violated at
\* once, and raises nothing when none is violated.
C4_FirstFailWins ==
  verdict # "pending" =>
    verdict = IF Violated(cand) = {} THEN OK
              ELSE CheckMessage[Earliest(Violated(cand))]

C4_Witness ==
  /\ verdict = MissingName
  /\ Violated(cand) = {4, 6}

\* C5: a record whose 'id' is present but is a float, a boolean, a string,
\* null, a list or an object fails with "field 'id' must be int".
C5_IdIntegerKindOnly ==
  ( /\ verdict # "pending"
    /\ cand.kind = "object"
    /\ "id" \in DOMAIN cand.fields
    /\ cand.fields["id"].kind \in {"float", "bool", "string", "null", "list", "object"} )
  => verdict = IdNotInt

\* C6: a record with valid 'id' and 'name' whose 'value' is present but is a
\* string, a boolean, null, a list or an object fails with
\* "field 'value' must be a number".
C6_ValueNumberKindOnly ==
  ( /\ verdict # "pending"
    /\ cand.kind = "object"
    /\ Keys \subseteq DOMAIN cand.fields
    /\ cand.fields["id"].kind = "int"
    /\ cand.fields["name"].kind = "string"
    /\ Strip(cand.fields["name"].s) # <<>>
    /\ cand.fields["value"].kind \in {"string", "bool", "null", "list", "object"} )
  => verdict = ValueNotNumber

\* C7: when the input decodes to a value that is not a list, process_file
\* fails with "input JSON must be a list" before validate_item is called on
\* anything and before any accumulation, and main exits with code 1; also
\* when the decoded value is itself a valid record object.
C7_NotAListRejected ==
  (ProcessRun /\ file.status = "ok" /\ file.doc.kind # "list") =>
    /\ calls = <<>> /\ added = <<>> /\ count = 0 /\ total = Zero
    /\ returned = <<>>
    /\ pc \in {"parse_args", "open", "load", "with_exit", "shape", "except", "exit"}
    /\ pc \in {"except", "exit"} => exc = Raise("ValueError", NotAList)
    /\ Done => (exit_code = 1 /\ stderr = <<ErrorLine(NotAList)>> /\ stdout = <<>>)

C7_Witness ==
  /\ Done /\ ProcessRun
  /\ file.doc.kind = "object"
  /\ validate_item([kind |-> "object", fields |-> file.doc.fields]) = OK
  /\ exit_code = 1
  /\ stderr = <<ErrorLine(NotAList)>>

\* C8: the input handle is open only between open() and the end of the with
\* block: it is released before the shape check and before the first
\* validate_item call, and in every terminal state (summary, validation
\* failure, not-a-list, decode failure, failure to open) no handle is open.
C8_HandleReleased ==
  /\ handle = "open" => pc \in {"load", "with_exit"}
  /\ pc \in {"shape", "loop", "accumulate", "print"} => handle = "closed"
  /\ calls # <<>> => handle = "closed"
  /\ (Done /\ ProcessRun) =>
       handle = IF file.status = "missing" THEN "none" ELSE "closed"

C8_Witness ==
  /\ Done
  /\ exc.type = "JSONDecodeError"
  /\ handle = "closed"

\* C9: validate_item is called on the elements in list order, each at most
\* once, on element i only after elements before it all passed; after a
\* failed call no element is validated or accumulated; only validated
\* elements are accumulated, in order.
C9_SinglePass ==
  /\ \A k \in 1..Len(calls) : calls[k].idx = k
  /\ \A k \in 1..(Len(calls) - 1) : calls[k].err = OK
  /\ \A k \in 1..Len(added) : added[k] = k
  /\ \A k \in 1..Len(added) : k \in OkCalls
  /\ Len(calls) <= Len(Input)

C9_Witness ==
  /\ Done
  /\ Len(Input) = 2
  /\ Len(calls) = 1
  /\ calls[1].err # OK
  /\ added = <<>>

\* C10: at the head of each iteration count is the number of elements that
\* passed validation and total is the sum of their 'value' fields; a value is
\* added and counted only after validate_item succeeded for that element; on
\* success total_value is the sum of all 'value' fields (60 for 10, 20, 30).
C10_Accumulation ==
  /\ pc = "loop" =>
       /\ count = Cardinality(OkCalls)
       /\ count = idx - 1
       /\ total = SumOf(Input, count)
  /\ pc = "accumulate" =>
       /\ calls[idx].err = OK
       /\ count = Cardinality(OkCalls) - 1
       /\ total = SumOf(Input, count)
  /\ Len(added) = count
  /\ returned # <<>> =>
       /\ returned[1].count = Len(Input)
       /\ returned[1].total_value = SumOf(Input, Len(Input))
  /\ (returned # <<>> /\ file = TestMultipleFile) =>
       returned[1] = [count |-> 3, total_value |-> <<60, 1>>, avg_value |-> <<20, 1>>]

C10_Witness ==
  /\ Done
  /\ file = TestMultipleFile
  /\ returned # <<>>
  /\ returned[1].total_value = <<60, 1>>

====
